---- MODULE Spec2Model ----
(***************************************************************************)
(* Model of src/completion/url-completion-provider.ts (the URL completion  *)
(* provider of the Defold extension) and of the unzipDependencies command  *)
(* that shares the file.                                                   *)
(*                                                                         *)
(* Strings are TLA+ strings; TLC evaluates Len, SubSeq and \o on them.     *)
(***************************************************************************)
EXTENDS Integers, Sequences, FiniteSets, TLC

VARIABLES
    index,      \* DefoldIndex.instance: the project index the provider reads
    document,   \* the vscode.TextDocument and caret Position of the request
    pc,         \* where provideCompletionItems is: idle, resolving, done, crashed
    shown,      \* value returned by the last showUrlCompletion call
    stack,      \* call stack of instanceCompletionItem frames (flatMap in progress)
    items,      \* completion items concatenated so far by the running request
    result,     \* value the provider last returned to the editor
    requests,   \* number of requests that returned (capped at 2)
    cmd,        \* where the unzipDependencies command is
    memento,    \* StateMemento: the persisted extension state (or NoState)
    state,      \* the command's loaded IState object
    listing,    \* .zip files in the internal assets folder
    filenames,  \* the command's result of readArchivedAssetFilenames
    cursor,     \* position of the for-await loop in filenames
    effects     \* workspace side effects performed by the command so far

resolverVars == <<index, document, pc, shown, stack, items, result, requests>>
unzipVars == <<cmd, memento, state, listing, filenames, cursor, effects>>
vars == <<index, document, pc, shown, stack, items, result, requests,
          cmd, memento, state, listing, filenames, cursor, effects>>

----------------------------------------------------------------------------
(* Bounds of the model *)

MaxInst == 2        \* instances in the index
MaxSize == 5        \* entities in the index: child links + components + roots
MaxStack == 4       \* frames the call stack holds before RangeError
MaxLen == 3         \* characters of a generated line of text
MaxDeletions == 2   \* deletions of the annotations folder that are followed

Inst == 1..MaxInst

----------------------------------------------------------------------------
(* Strings *)

endsWith(s, suffix) ==
    /\ Len(s) >= Len(suffix)
    /\ SubSeq(s, Len(s) - Len(suffix) + 1, Len(s)) = suffix

startsWith(s, prefix) ==
    /\ Len(s) >= Len(prefix)
    /\ SubSeq(s, 1, Len(prefix)) = prefix

\* String.prototype.substring(0, end): end is clamped to the string's length
substring0(s, end) ==
    SubSeq(s, 1, IF end > Len(s) THEN Len(s) ELSE end)

charAt(s, i) == SubSeq(s, i, i)

\* \w of a JavaScript regular expression: [A-Za-z0-9_]
WordChars ==
    {"a", "b", "c", "d", "e", "f", "g", "h", "i", "j", "k", "l", "m",
     "n", "o", "p", "q", "r", "s", "t", "u", "v", "w", "x", "y", "z",
     "A", "B", "C", "D", "E", "F", "G", "H", "I", "J", "K", "L", "M",
     "N", "O", "P", "Q", "R", "S", "T", "U", "V", "W", "X", "Y", "Z",
     "0", "1", "2", "3", "4", "5", "6", "7", "8", "9", "_"}

isWordChar(c) == c \in WordChars

\* Backtracking match of \w+: ending at position i, having consumed n >= 1
\* word characters so far, looks for the opening quote.
RECURSIVE matchWordsBack(_, _)
matchWordsBack(s, i) ==
    IF i < 1 THEN FALSE
    ELSE IF ~isWordChar(charAt(s, i)) THEN FALSE
    ELSE IF i > 1 /\ charAt(s, i - 1) = "\"" THEN TRUE
    ELSE matchWordsBack(s, i - 1)

\* the regular expression with \w* in place of \w+
urlSchemeRegexTestStar(s) ==
    /\ Len(s) >= 2
    /\ charAt(s, Len(s)) = ":"
    /\ \/ charAt(s, Len(s) - 1) = "\""
       \/ matchWordsBack(s, Len(s) - 1)

\* /"\w+:$/.test(s)
urlSchemeRegexTest(s) ==
    /\ Len(s) >= 3
    /\ charAt(s, Len(s)) = ":"
    /\ matchWordsBack(s, Len(s) - 1)

----------------------------------------------------------------------------
(* The editor side: documents, positions, workspace-relative paths *)

WorkspaceFolder == "/ws/"

\* vscode.workspace.asRelativePath(document.uri): the path below the
\* workspace folder, or the path itself when it lies outside of it
asRelativePath(path) ==
    IF startsWith(path, WorkspaceFolder)
    THEN SubSeq(path, Len(WorkspaceFolder) + 1, Len(path))
    ELSE path

\* document.lineAt(position).text.substring(0, position.character)
linePrefixOf(doc) == substring0(doc.text, doc.character)

\* the detector testing for a trailing # instead of a trailing "#
showUrlCompletionAnyHash(doc) ==
    IF ~endsWith(doc.path, ".script") THEN FALSE
    ELSE LET linePrefix == linePrefixOf(doc) IN
         IF \/ endsWith(linePrefix, "\"")
            \/ endsWith(linePrefix, "#")
            \/ urlSchemeRegexTest(linePrefix)
         THEN TRUE
         ELSE FALSE

showUrlCompletion(doc) ==
    IF ~endsWith(doc.path, ".script") THEN FALSE
    ELSE LET linePrefix == linePrefixOf(doc) IN
         IF \/ endsWith(linePrefix, "\"")
            \/ endsWith(linePrefix, "\"#")
            \/ urlSchemeRegexTest(linePrefix)
         THEN TRUE
         ELSE FALSE

----------------------------------------------------------------------------
(* The project index (DefoldIndex) as the provider reads it *)

\* The one script file the index knows, under its absolute-path key
IndexedScript == "/main/player.script"

\* IDefoldComponent k of the game object the indexed script is attached to
GameObjectComponent(k) ==
    [url      |-> "/player#c" \o ToString(k),
     type     |-> IF k = 1 THEN "script" ELSE "sprite",
     filename |-> "/main/player.go",
     id       |-> "c" \o ToString(k)]

\* IDefoldComponent k owned by instance i
InstanceComponent(i, k) ==
    [url      |-> "/inst" \o ToString(i) \o "#c" \o ToString(k),
     type     |-> IF k = 1 THEN "script" ELSE "sprite",
     filename |-> "/main/inst" \o ToString(i) \o ".go",
     id       |-> "c" \o ToString(k)]

\* IDefoldInstance i: instances holds references (ids) in iteration order
Instance(i) ==
    [url        |-> "/inst" \o ToString(i),
     type       |-> IF index.children[i] = <<>> THEN "go" ELSE "collection",
     filename   |-> "/main/inst" \o ToString(i) \o ".collection",
     instances  |-> index.children[i],
     components |-> [k \in 1..index.ncomp[i] |-> InstanceComponent(i, k)]]

\* DefoldIndex.instance.findGameObjectComponents(key); a miss is empty
findGameObjectComponents(key) ==
    IF key = IndexedScript
    THEN [k \in 1..index.components |-> GameObjectComponent(k)]
    ELSE <<>>

\* DefoldIndex.instance.findCollectionInstances(key); a miss is empty
findCollectionInstances(key) ==
    IF key = IndexedScript THEN index.instances ELSE <<>>

----------------------------------------------------------------------------
(* Completion items *)

CompletionItemKindText == "Text"

\* the component's item filtering on the url, as the instance's item does
componentCompletionItemFilterUrl(component) ==
    [label       |-> component.url,
     detail      |-> " " \o component.type,
     description |-> component.filename,
     kind        |-> CompletionItemKindText,
     filterText  |-> component.url]

componentCompletionItem(component) ==
    [label       |-> component.url,
     detail      |-> " " \o component.type,
     description |-> component.filename,
     kind        |-> CompletionItemKindText,
     filterText  |-> component.id]

\* the item instanceCompletionItem builds for the instance itself
instanceItem(instance) ==
    [label       |-> instance.url,
     detail      |-> " " \o instance.type,
     description |-> instance.filename,
     kind        |-> CompletionItemKindText,
     filterText  |-> instance.url]

\* components.map(componentCompletionItem)
mapComponentCompletionItem(components) ==
    [k \in 1..Len(components) |-> componentCompletionItem(components[k])]

\* the lookup under the workspace-relative path, without the leading slash
completionIfAttachedToGameObjectNoSlash(scriptPath) ==
    mapComponentCompletionItem(findGameObjectComponents(scriptPath))

completionIfAttachedToGameObject(scriptPath) ==
    mapComponentCompletionItem(findGameObjectComponents("/" \o scriptPath))

\* What provideCompletionItems returns to the editor
Undefined == [defined |-> FALSE, items |-> <<>>]
Returned(list) == [defined |-> TRUE, items |-> list]

\* the provider returning its list whether or not it is empty
provideResultAlways(list) == Returned(list)

provideResult(list) ==
    IF Len(list) > 0 THEN Returned(list) ELSE Undefined

\* A frame of the recursion: the instance being expanded (TopLevel for the
\* flatMap of completionIfAttachedToCollection) and the children still to visit
TopLevel == 0
Frame(i, rest) == [inst |-> i, rest |-> rest]

----------------------------------------------------------------------------
(* provideCompletionItems, the recursion of instanceCompletionItem unfolded *)
(* into one step per call and one per return                               *)

\* the provider collecting into a list that outlives the request
ProvideCompletionItemsKeepingItems ==
    /\ pc \in {"idle", "done", "crashed"}
    /\ shown' = showUrlCompletion(document)
    /\ IF ~shown'
       THEN /\ result' = Undefined
            /\ requests' = IF requests < 2 THEN requests + 1 ELSE requests
            /\ pc' = "done"
            /\ items' = <<>>
            /\ stack' = <<>>
       ELSE LET script == asRelativePath(document.path) IN
            /\ items' = items \o completionIfAttachedToGameObject(script)
            /\ stack' = <<Frame(TopLevel, findCollectionInstances("/" \o script))>>
            /\ pc' = "resolving"
            /\ UNCHANGED <<result, requests>>
    /\ UNCHANGED <<index, document>>
    /\ UNCHANGED unzipVars

\* Entry of the provider up to the start of the flatMap over the instances
ProvideCompletionItems ==
    /\ pc \in {"idle", "done", "crashed"}
    /\ shown' = showUrlCompletion(document)
    /\ IF ~shown'
       THEN /\ result' = Undefined
            /\ requests' = IF requests < 2 THEN requests + 1 ELSE requests
            /\ pc' = "done"
            /\ items' = <<>>
            /\ stack' = <<>>
       ELSE LET script == asRelativePath(document.path) IN
            /\ items' = completionIfAttachedToGameObject(script)
            /\ stack' = <<Frame(TopLevel, findCollectionInstances("/" \o script))>>
            /\ pc' = "resolving"
            /\ UNCHANGED <<result, requests>>
    /\ UNCHANGED <<index, document>>
    /\ UNCHANGED unzipVars

\* the flatMap visiting the instances from the last to the first
CallLastInstanceFirst ==
    /\ pc = "resolving"
    /\ stack /= <<>>
    /\ LET top == stack[Len(stack)] IN
       /\ top.rest /= <<>>
       /\ IF Len(stack) > MaxStack
          THEN /\ pc' = "crashed"
               /\ stack' = <<>>
               /\ items' = <<>>
          ELSE LET last == top.rest[Len(top.rest)] IN
               /\ items' = Append(items, instanceItem(Instance(last)))
               /\ stack' = Append(
                      [stack EXCEPT ![Len(stack)] =
                          Frame(top.inst, SubSeq(top.rest, 1, Len(top.rest) - 1))],
                      Frame(last, Instance(last).instances))
               /\ pc' = pc
    /\ UNCHANGED <<index, document, shown, result, requests>>
    /\ UNCHANGED unzipVars

\* A call of instanceCompletionItem on the next child of the running flatMap:
\* the instance's own item comes first.  A call beyond the stack's capacity
\* throws RangeError, which leaves the provider without a result.
CallInstanceCompletionItem ==
    /\ pc = "resolving"
    /\ stack /= <<>>
    /\ LET top == stack[Len(stack)] IN
       /\ top.rest /= <<>>
       /\ IF Len(stack) > MaxStack
          THEN /\ pc' = "crashed"
               /\ stack' = <<>>
               /\ items' = <<>>
          ELSE LET instance == Instance(Head(top.rest)) IN
               /\ items' = Append(items, instanceItem(instance))
               /\ stack' = Append(
                      [stack EXCEPT ![Len(stack)] = Frame(top.inst, Tail(top.rest))],
                      Frame(Head(top.rest), instance.instances))
               /\ pc' = pc
    /\ UNCHANGED <<index, document, shown, result, requests>>
    /\ UNCHANGED unzipVars

\* the call returning without the instance's own components
ReturnWithoutComponents ==
    /\ pc = "resolving"
    /\ Len(stack) > 1
    /\ stack[Len(stack)].rest = <<>>
    /\ stack' = SubSeq(stack, 1, Len(stack) - 1)
    /\ UNCHANGED <<index, document, pc, shown, items, result, requests>>
    /\ UNCHANGED unzipVars

\* The flatMap over instance.instances is exhausted: the instance's own
\* components follow and the call returns
ReturnInstanceCompletionItem ==
    /\ pc = "resolving"
    /\ Len(stack) > 1
    /\ LET top == stack[Len(stack)] IN
       /\ top.rest = <<>>
       /\ items' = items \o mapComponentCompletionItem(Instance(top.inst).components)
       /\ stack' = SubSeq(stack, 1, Len(stack) - 1)
    /\ UNCHANGED <<index, document, pc, shown, result, requests>>
    /\ UNCHANGED unzipVars

\* The top-level flatMap is exhausted: the provider returns
ReturnItems ==
    /\ pc = "resolving"
    /\ Len(stack) = 1
    /\ stack[1].rest = <<>>
    /\ result' = provideResult(items)
    /\ requests' = IF requests < 2 THEN requests + 1 ELSE requests
    /\ pc' = "done"
    /\ stack' = <<>>
    /\ UNCHANGED <<index, document, shown, items>>
    /\ UNCHANGED unzipVars

----------------------------------------------------------------------------
(* The unzipDependencies command *)

UpperCase == "ABCDEFGHIJKLMNOPQRSTUVWXYZ"
LowerCase == "abcdefghijklmnopqrstuvwxyz"

toLowerChar(c) ==
    IF \E k \in 1..Len(UpperCase) : charAt(UpperCase, k) = c
    THEN charAt(LowerCase, CHOOSE k \in 1..Len(UpperCase) : charAt(UpperCase, k) = c)
    ELSE c

\* String.prototype.toLowerCase
RECURSIVE toLowerCase(_)
toLowerCase(s) ==
    IF s = "" THEN ""
    ELSE toLowerChar(charAt(s, 1)) \o toLowerCase(SubSeq(s, 2, Len(s)))

\* what StateMemento.load returns before the extension was initialized,
\* and a loaded IState
NoState == [initialized |-> FALSE, assets |-> <<>>]
IState(assets) == [initialized |-> TRUE, assets |-> assets]

skipAssets == <<"extension-teal">>

\* the result of readAssetInfoFromArchive when the archive cannot be read:
\* {} as IArchiveAsset, an object without any field
EmptyArchiveAsset == [unreadable |-> TRUE]

ArchiveAsset(path, name, version, rootDirectory, includeDirectories) ==
    [unreadable |-> FALSE, path |-> path, name |-> name, version |-> version,
     rootDirectory |-> rootDirectory, includeDirectories |-> includeDirectories]

\* readAssetInfoFromArchive over the archives of the model: game.project of
\* each archive, or a failure to read it
readAssetInfoFromArchive(path) ==
    CASE endsWith(path, "/druid.zip") ->
            ArchiveAsset(path, "Druid", "1.0", "druid-1.0", <<"druid">>)
      [] endsWith(path, "/teal.zip") ->
            ArchiveAsset(path, "Teal", "1.2", "Extension-Teal-main", <<"teal">>)
      [] endsWith(path, "/types.zip") ->
            ArchiveAsset(path, "extension-teal types", "0.1", "", <<"types">>)
      [] OTHER -> EmptyArchiveAsset

readAssetArchiveMetadata(filename) ==
    readAssetInfoFromArchive("<assetsInternalFolder>/" \o filename[1])

\* shouldSkipAsset reads rootDirectory and name; on {} the optional chain
\* yields undefined and name.toLowerCase() throws TypeError
shouldSkipAssetThrows(archivedAsset) == archivedAsset.unreadable

shouldSkipAsset(archivedAsset) ==
    LET assetName == IF archivedAsset.rootDirectory /= ""
                     THEN toLowerCase(archivedAsset.rootDirectory)
                     ELSE toLowerCase(archivedAsset.name) IN
    \E k \in 1..Len(skipAssets) : startsWith(assetName, skipAssets[k])

\* the asset record naming the archive by its path
toAssetInfoArchivePath(unzippedAsset, filename) ==
    [name |-> unzippedAsset.name,
     version |-> unzippedAsset.version,
     sourceArchiveFilename |-> unzippedAsset.path]

toAssetInfo(unzippedAsset, filename) ==
    [name |-> unzippedAsset.name,
     version |-> unzippedAsset.version,
     sourceArchiveFilename |-> filename[1]]

\* Array.prototype.includes
includes(seq, x) == \E k \in 1..Len(seq) : seq[k] = x

isArchiveFile(entry) == entry[2] = "File" /\ endsWith(entry[1], ".zip")

\* archiveFilenames.filter(...)
RECURSIVE filterArchiveFiles(_)
filterArchiveFiles(entries) ==
    IF entries = <<>> THEN <<>>
    ELSE IF isArchiveFile(Head(entries))
    THEN <<Head(entries)>> \o filterArchiveFiles(Tail(entries))
    ELSE filterArchiveFiles(Tail(entries))

\* readDirectory of the internal assets folder, .zip files only; a folder
\* that cannot be read is the empty listing
readArchivedAssetFilenames == filterArchiveFiles(listing)

assetAnnotationsAreUpToDate(st, names) ==
    IF Len(st.assets) /= Len(names) THEN FALSE
    ELSE LET existingAssetFilenames ==
                 [k \in 1..Len(st.assets) |-> st.assets[k].sourceArchiveFilename]
             someAreDifferent ==
                 \E k \in 1..Len(names) : ~includes(existingAssetFilenames, names[k][1])
         IN ~someAreDifferent

\* StateMemento.load up to the start of the for-await loop
UnzipDependencies ==
    /\ cmd /= "extracting"
    /\ IF memento = NoState
       THEN /\ cmd' = "notInitialized"
            /\ state' = NoState
            /\ UNCHANGED <<filenames, cursor, effects>>
       ELSE /\ filenames' = readArchivedAssetFilenames
            /\ IF assetAnnotationsAreUpToDate(memento, filenames')
               THEN /\ cmd' = "upToDate"
                    /\ state' = memento
                    /\ UNCHANGED <<cursor, effects>>
               ELSE /\ effects.deletions < MaxDeletions
                    /\ cmd' = "extracting"
                    /\ state' = [memento EXCEPT !.assets = <<>>]
                    /\ cursor' = 1
                    /\ effects' = [effects EXCEPT !.deletions = @ + 1,
                                                  !.extracted = {},
                                                  !.library = FALSE]
    /\ UNCHANGED <<memento, listing>>
    /\ UNCHANGED resolverVars

\* one iteration of the for-await loop over filenames
UnzipNextArchive ==
    /\ cmd = "extracting"
    /\ cursor <= Len(filenames)
    /\ LET filename == filenames[cursor]
           assetArchive == readAssetArchiveMetadata(filename) IN
       IF shouldSkipAssetThrows(assetArchive)
       THEN /\ cmd' = "threw"
            /\ UNCHANGED <<state, cursor, effects>>
       ELSE IF shouldSkipAsset(assetArchive)
       THEN /\ state' = [state EXCEPT !.assets = Append(@, toAssetInfo(assetArchive, filename))]
            /\ cursor' = cursor + 1
            /\ UNCHANGED <<cmd, effects>>
       ELSE /\ effects' = [effects EXCEPT !.extracted = @ \cup {assetArchive.path}]
            /\ state' = [state EXCEPT !.assets = Append(@, toAssetInfo(assetArchive, filename))]
            /\ cursor' = cursor + 1
            /\ UNCHANGED cmd
    /\ UNCHANGED <<memento, listing, filenames>>
    /\ UNCHANGED resolverVars

\* after the loop: manifests deleted, library setting restored, state saved
UnzipSave ==
    /\ cmd = "extracting"
    /\ cursor > Len(filenames)
    /\ effects' = [effects EXCEPT !.library = TRUE]
    /\ memento' = state
    /\ cmd' = "completed"
    /\ UNCHANGED <<state, listing, filenames, cursor>>
    /\ UNCHANGED resolverVars

----------------------------------------------------------------------------
(* Initial states *)

\* sequences without repetition over S
DistinctSeqs(S) ==
    UNION {{q \in [1..n -> S] : \A a, b \in 1..n : a /= b => q[a] /= q[b]} :
           n \in 0..Cardinality(S)}

RECURSIVE SumLen(_, _)
SumLen(f, S) ==
    IF S = {} THEN 0
    ELSE LET x == CHOOSE y \in S : TRUE IN Len(f[x]) + SumLen(f, S \ {x})

RECURSIVE Sum(_, _)
Sum(f, S) ==
    IF S = {} THEN 0
    ELSE LET x == CHOOSE y \in S : TRUE IN f[x] + Sum(f, S \ {x})

Range(seq) == {seq[k] : k \in 1..Len(seq)}

\* instances reachable from the set S through at most n child links
RECURSIVE Reach(_, _, _)
Reach(S, ch, n) ==
    IF n = 0 THEN S
    ELSE Reach(S \cup UNION {Range(ch[i]) : i \in S}, ch, n - 1)

\* Every index of at most MaxSize entities, cyclic ones included.  Instances
\* are objects found through the lookup only: an instance no root leads to
\* does not exist, so it has no content.
Indexes ==
    UNION {UNION {UNION {
        {[components |-> n, instances |-> roots, children |-> ch, ncomp |-> nc] :
            n \in 0..(MaxSize - Len(roots) - SumLen(ch, Inst) - Sum(nc, Inst))} :
        nc \in {f \in [Inst -> 0..(MaxSize - Len(roots) - SumLen(ch, Inst))] :
                   /\ Sum(f, Inst) <= MaxSize - Len(roots) - SumLen(ch, Inst)
                   /\ \A i \in Inst \ Reach(Range(roots), ch, MaxInst) : f[i] = 0}} :
        roots \in {r \in DistinctSeqs(Inst) :
                   /\ Len(r) <= MaxSize - SumLen(ch, Inst)
                   /\ \A i \in Inst \ Reach(Range(r), ch, MaxInst) : ch[i] = <<>>}} :
        ch \in {c \in [Inst -> DistinctSeqs(Inst)] : SumLen(c, Inst) <= MaxSize}}

OpenQuote == "go.get(\""
ClosedQuote == "go.get(\"go\")"

Doc(path, text, character) == [path |-> path, text |-> text, character |-> character]

\* a script the index knows and one it does not, at a caret that triggers,
\* and the known script at a caret behind a closed string
ResolverDocuments ==
    {Doc("/ws/main/player.script", OpenQuote, Len(OpenQuote)),
     Doc("/ws/main/other.script", OpenQuote, Len(OpenQuote)),
     Doc("/ws/main/player.script", ClosedQuote, Len(ClosedQuote))}

ResolverIdle ==
    /\ pc = "idle"
    /\ shown = FALSE
    /\ stack = <<>>
    /\ items = <<>>
    /\ result = Undefined
    /\ requests = 0

\* nothing deleted or extracted yet, the library setting in place
NoEffects == [deletions |-> 0, extracted |-> {}, library |-> TRUE]

UnzipIdle ==
    /\ cmd = "idle"
    /\ memento = NoState
    /\ state = NoState
    /\ listing = <<>>
    /\ filenames = <<>>
    /\ cursor = 0
    /\ effects = NoEffects

Init ==
    /\ index \in Indexes
    /\ document \in ResolverDocuments
    /\ ResolverIdle
    /\ UnzipIdle

\* lines of text of at most n characters over the alphabet A
RECURSIVE Lines(_, _)
Lines(A, n) ==
    IF n = 0 THEN {""}
    ELSE LET shorter == Lines(A, n - 1) IN
         shorter \cup {line \o c : line \in shorter, c \in A}

\* quote, hash, colon, two word characters, two other characters
TriggerAlphabet == {"\"", "#", ":", "g", "_", ")", " "}

ExampleLines ==
    {"local x = go.get(\"",
     "local x = go.get(\"#",
     "local x = go.get(\"go#",
     "local x = go.get(\"go:",
     "local x = go.get(\"go\")"}

TriggerPaths ==
    {"/ws/main/player.script", "/ws/main/player.lua", "/ws/main/player.gui_script"}

TriggerDocuments ==
    {Doc(path, text, character) :
        path \in TriggerPaths,
        text \in Lines(TriggerAlphabet, MaxLen),
        character \in 0..MaxLen} \cup
    {Doc(path, text, Len(text)) : path \in TriggerPaths, text \in ExampleLines}

\* one collection instance holding two components and a nested instance
\* with one component; one component on the script's game object
ExampleIndex ==
    [components |-> 1,
     instances  |-> <<1>>,
     children   |-> [i \in Inst |-> IF i = 1 THEN <<2>> ELSE <<>>],
     ncomp      |-> [i \in Inst |-> IF i = 1 THEN 2 ELSE IF i = 2 THEN 1 ELSE 0]]

InitTrigger ==
    /\ index = ExampleIndex
    /\ document \in {d \in TriggerDocuments : d.character <= Len(d.text)}
    /\ ResolverIdle
    /\ UnzipIdle

\* entries of the internal assets folder: [name, FileType]
DirectoryEntries ==
    {<<"druid.zip", "File">>, <<"teal.zip", "File">>, <<"types.zip", "File">>,
     <<"broken.zip", "File">>, <<"notes.txt", "File">>, <<"old.zip", "Directory">>}

\* persisted states: none, a fresh one, one left by an earlier listing
Mementos ==
    {NoState,
     IState(<<>>),
     IState(<<[name |-> "Druid", version |-> "0.9",
               sourceArchiveFilename |-> "druid-old.zip"]>>)}

InitUnzip ==
    /\ index = ExampleIndex
    /\ document = Doc("/ws/main/player.script", OpenQuote, Len(OpenQuote))
    /\ ResolverIdle
    /\ cmd = "idle"
    /\ memento \in Mementos
    /\ state = NoState
    /\ listing \in DistinctSeqs(DirectoryEntries)
    /\ filenames = <<>>
    /\ cursor = 0
    /\ effects = NoEffects

Next ==
    \/ ProvideCompletionItems
    \/ CallInstanceCompletionItem
    \/ ReturnInstanceCompletionItem
    \/ ReturnItems

NextUnzip ==
    \/ UnzipDependencies
    \/ UnzipNextArchive
    \/ UnzipSave

Spec == Init /\ [][Next]_vars

SpecUnzip == InitUnzip /\ [][NextUnzip]_vars

SpecTrigger == InitTrigger /\ [][Next]_vars

----------------------------------------------------------------------------
(* Vocabulary of the properties *)

\* the index key of the request's script and what the two lookups return for it
RequestKey == "/" \o asRelativePath(document.path)
LookupComponents == findGameObjectComponents(RequestKey)
LookupInstances == findCollectionInstances(RequestKey)

\* the instances relation leads from no instance of the lookup back to itself
Acyclic ==
    \A i \in Reach(Range(LookupInstances), index.children, MaxInst) :
        i \notin Reach(Range(index.children[i]), index.children, MaxInst)

\* a request that passed the trigger detector has returned
Resolved == pc = "done" /\ shown

Labels(list) == [k \in 1..Len(list) |-> list[k].label]

Urls(entities) == [k \in 1..Len(entities) |-> entities[k].url]

\* expand(I) of the specification, as the urls of the entities in order;
\* defined on acyclic indexes only
RECURSIVE ExpandUrls(_), ExpandAllUrls(_)
ExpandUrls(i) ==
    <<Instance(i).url>> \o ExpandAllUrls(Instance(i).instances)
                        \o Urls(Instance(i).components)
ExpandAllUrls(seq) ==
    IF seq = <<>> THEN <<>>
    ELSE ExpandUrls(Head(seq)) \o ExpandAllUrls(Tail(seq))

\* every entity of the index, tagged with its kind
Entities ==
    {[kind |-> "component", entity |-> GameObjectComponent(k)] :
        k \in 1..index.components} \cup
    {[kind |-> "instance", entity |-> Instance(i)] : i \in Inst} \cup
    UNION {{[kind |-> "component", entity |-> InstanceComponent(i, k)] :
               k \in 1..index.ncomp[i]} : i \in Inst}

----------------------------------------------------------------------------
(* Properties of the resolver *)

\* C1: on an acyclic index the returned list is the components of the
\* game-object lookup in order, then expand(I) of every instance of the
\* collection lookup in order, where expand(I) is I, then the expansion of
\* its child instances, then its components.
C1_ListIsExpansion ==
    (Resolved /\ Acyclic) =>
        Labels(result.items) = Urls(LookupComponents) \o ExpandAllUrls(LookupInstances)

\* an instance with a child instance and components of its own, below a
\* second root or beside game-object components, has been resolved
C1_Witness ==
    /\ Resolved /\ Acyclic
    /\ Len(LookupInstances) = 2
    /\ \E i \in Range(LookupInstances) :
          Instance(i).instances /= <<>> /\ Len(Instance(i).components) > 0
    /\ Len(result.items) >= 4

\* C2 as claimed: resolution over a cyclic index ends without a crash
C2_CycleNeverCrashes == ~Acyclic => pc /= "crashed"

\* C5 as amended: one instance with 2 components and 1 nested instance with
\* 1 component resolves to exactly 5 suggestions: outer instance, nested
\* instance, the nested instance's component, the outer instance's 2 components.
C5Scenario(outer, nested) ==
    /\ outer /= nested
    /\ Resolved
    /\ LookupComponents = <<>>
    /\ LookupInstances = <<outer>>
    /\ Instance(outer).instances = <<nested>>
    /\ Len(Instance(outer).components) = 2
    /\ Instance(nested).instances = <<>>
    /\ Len(Instance(nested).components) = 1

C5Order(outer, nested) ==
    <<Instance(outer).url,
      Instance(nested).url,
      Instance(nested).components[1].url,
      Instance(outer).components[1].url,
      Instance(outer).components[2].url>>

C5_FiveInOrder ==
    \A outer, nested \in Inst :
        C5Scenario(outer, nested) =>
            /\ Len(result.items) = 5
            /\ Labels(result.items) = C5Order(outer, nested)

C5_Witness ==
    \E outer, nested \in Inst : C5Scenario(outer, nested) /\ result.defined

\* C5 as claimed: the same scenario yields exactly 4 suggestions in that order
C5_FourInOrder ==
    \A outer, nested \in Inst :
        C5Scenario(outer, nested) =>
            /\ Len(result.items) = 4
            /\ Labels(result.items) = C5Order(outer, nested)

\* C6: when the game-object lookup returns N components and the collection
\* lookup none, the request yields N suggestions, the i-th one built from
\* the i-th component with that component's id as filterText.
C6_ComponentsOnly ==
    (Resolved /\ LookupInstances = <<>>) =>
        /\ Len(result.items) = Len(LookupComponents)
        /\ \A k \in 1..Len(LookupComponents) :
              /\ result.items[k].label = LookupComponents[k].url
              /\ result.items[k].filterText = LookupComponents[k].id

C6_Witness ==
    /\ Resolved
    /\ LookupInstances = <<>>
    /\ Len(LookupComponents) >= 2
    /\ Len(result.items) >= 2

\* C7: every suggestion carries its entity's url as label, a space and the
\* type as detail, the filename as description; filterText is the id (not
\* the url) for a component and the url for an instance.
C7_ItemFields ==
    \A k \in 1..Len(items) :
        \E e \in Entities :
            /\ items[k].label = e.entity.url
            /\ items[k].detail = " " \o e.entity.type
            /\ items[k].description = e.entity.filename
            /\ IF e.kind = "component"
               THEN /\ items[k].filterText = e.entity.id
                    /\ items[k].filterText /= e.entity.url
               ELSE items[k].filterText = e.entity.url

C7_Witness ==
    /\ pc = "done"
    /\ \E a, b \in 1..Len(items) :
          /\ items[a].filterText = items[a].label
          /\ items[b].filterText /= items[b].label

\* C8: with both lookups empty the request returns the absent result and
\* does not fail; the provider never returns an empty list; a request that
\* returns after a lookup produced an entity returns a non-empty list.
C8_AbsentOrNonEmpty ==
    /\ (LookupComponents = <<>> /\ LookupInstances = <<>>) =>
          /\ pc /= "crashed"
          /\ pc = "done" => result = Undefined
    /\ result.defined => Len(result.items) > 0
    /\ (Resolved /\ (LookupComponents /= <<>> \/ LookupInstances /= <<>>)) =>
          result.defined /\ Len(result.items) > 0

C8_Witness ==
    /\ Resolved
    /\ LookupComponents = <<>> /\ LookupInstances = <<>>
    /\ index.instances /= <<>>
    /\ result = Undefined

\* C9: a request that follows a returned request on the same document and
\* an unchanged index returns the same list, and no step changes the index.
C9_Idempotent ==
    [][/\ index' = index
       /\ (requests >= 1 /\ pc' = "done") => result' = result]_vars

C9_Witness ==
    /\ requests = 2
    /\ pc = "done"
    /\ Len(result.items) >= 3

----------------------------------------------------------------------------
(* Properties of the trigger detector *)

\* the text before the caret
Before(doc) ==
    SubSeq(doc.text, 1, IF doc.character < Len(doc.text) THEN doc.character
                                                          ELSE Len(doc.text))

\* a double quote, one or more word characters and a colon end the text
QuoteWordsColon(text) ==
    \E q \in 1..Len(text) :
        /\ q <= Len(text) - 2
        /\ SubSeq(text, q, q) = "\""
        /\ \A m \in (q + 1)..(Len(text) - 1) : SubSeq(text, m, m) \in WordChars
        /\ SubSeq(text, Len(text), Len(text)) = ":"

LastChars(text, n) ==
    IF Len(text) < n THEN "" ELSE SubSeq(text, Len(text) - n + 1, Len(text))

\* C3: showUrlCompletion is true exactly when the path ends with .script
\* and the text before the caret ends with a quote, with quote-hash, or
\* with a quote, word characters and a colon.
C3_TriggerIff ==
    pc /= "idle" =>
        (shown <=>
            /\ LastChars(document.path, 7) = ".script"
            /\ \/ LastChars(Before(document), 1) = "\""
               \/ LastChars(Before(document), 2) = "\"#"
               \/ QuoteWordsColon(Before(document)))

C3_Witness ==
    /\ pc = "done"
    /\ shown
    /\ QuoteWordsColon(Before(document))

AtCaret(path, text) == pc /= "idle" /\ document = Doc(path, text, Len(text))

\* C4 as amended: in a script the detector is true before the caret for
\* go.get(" and go.get("go: and go.get("# and false for go.get("go# and
\* for the closed go.get("go").
C4_Examples ==
    LET script == "/ws/main/player.script" IN
    /\ AtCaret(script, "local x = go.get(\"") => shown
    /\ AtCaret(script, "local x = go.get(\"go:") => shown
    /\ AtCaret(script, "local x = go.get(\"#") => shown
    /\ AtCaret(script, "local x = go.get(\"go#") => ~shown
    /\ AtCaret(script, "local x = go.get(\"go\")") => ~shown

C4_Witness ==
    /\ AtCaret("/ws/main/player.script", "local x = go.get(\"go#")
    /\ pc = "done"
    /\ ~shown

\* C4 as claimed: the detector is true for go.get("go# as well
C4_HashAfterIdentifier ==
    LET script == "/ws/main/player.script" IN
    /\ AtCaret(script, "local x = go.get(\"") => shown
    /\ AtCaret(script, "local x = go.get(\"go:") => shown
    /\ AtCaret(script, "local x = go.get(\"go#") => shown
    /\ AtCaret(script, "local x = go.get(\"go\")") => ~shown

----------------------------------------------------------------------------
(* Properties of the unzipDependencies command *)

SourceArchiveFilenames(st) ==
    [k \in 1..Len(st.assets) |-> st.assets[k].sourceArchiveFilename]

ArchiveNames(names) == [k \in 1..Len(names) |-> names[k][1]]

\* C10: a run of the command that completes saves one asset record per
\* archive of the listing, skipped ones included, under the archive's file
\* name; the invocation that follows on the same listing finds the
\* annotations up to date and returns with the saved state, the annotations
\* folder, the library setting and the extracted assets untouched.
C10_CompletedThenUpToDate ==
    [][/\ cmd' = "completed" =>
            SourceArchiveFilenames(memento') = ArchiveNames(readArchivedAssetFilenames)
       /\ cmd = "completed" =>
            /\ cmd' = "upToDate"
            /\ memento' = memento
            /\ effects' = effects]_vars

\* a second invocation has returned early after a run that skipped one
\* archive and extracted another
C10_Witness ==
    /\ cmd = "upToDate"
    /\ effects.deletions = 1
    /\ effects.extracted /= {}
    /\ Len(memento.assets) > Cardinality(effects.extracted)

====
